---- MODULE Spec2Model ----
(***************************************************************************)
(* Altified worker (src/src/index.js).                                     *)
(*                                                                         *)
(* Two halves are modelled:                                                *)
(*   - the client translation engine that the worker injects into a        *)
(*     translated page (index.js 312-769): specification Spec;             *)
(*   - the edge worker's request handling (index.js 16-242):               *)
(*     specification EdgeSpec.                                             *)
(*                                                                         *)
(* The client engine is single threaded.  A step of the model is one turn  *)
(* of the event loop (a task) or one continuation of an async function     *)
(* after an await (a microtask).  Continuations whose promise is already   *)
(* settled run before any further task: tasks are guarded by               *)
(* ~MicrotaskPending.                                                      *)
(***************************************************************************)
EXTENDS Integers, Sequences, FiniteSets, TLC

\* ------------------------------------------------------------------------
\* Bounds of the model
\* ------------------------------------------------------------------------

\* How many times the MutationObserver callback starts translateNewNodes.
MaxObserverCalls == 2

\* How many requests the worker handles in a run.
MaxRequests == 2

\* How many times the link rewrite is applied to one href.
MaxRewrites == 2

\* How many page loads of one browser session run the auto-detect script.
MaxPageLoads == 3

\* ------------------------------------------------------------------------
\* Strings
\* ------------------------------------------------------------------------

\* Map.get of a missing key (undefined), getAttribute of a missing attribute
\* (null) and an element without a parent (null).
NoVal == "<none>"

\* The trimmed source strings of the page.
SourceTexts == {"Hello", "World"}

\* String.prototype.trim on the strings of the model.
Trim(s) ==
  CASE s = " Hello " -> "Hello"
    [] s = "  " -> ""
    [] OTHER -> s

\* The language the engine script was generated for: '${lang}'.
PageLang == "fr"

\* What the translation collaborator answers for a source string.
Translated(s) ==
  CASE s = "Hello" -> "Bonjour"
    [] s = "World" -> "Monde"
    [] OTHER -> s

\* ------------------------------------------------------------------------
\* The document
\* ------------------------------------------------------------------------

\* Elements in document order.  n1 is <p translate="no" title="World">Hello</p>
\* and a0 is a link of the body.  d1, d2 and a3
\* are created by a page script and inserted under body after the engine
\* started: d1 is <div>Hello<a href></a></div> (its link is a1), d2 is
\* <div><a href></a></div> without any text (its link is a2) and a3 is a
\* bare <a href></a>.
DocElements ==
  <<"head", "title", "meta", "body", "p1", "img", "n1", "p2", "a0",
    "d1", "a1", "d2", "a2", "a3">>
Elements == {DocElements[i] : i \in 1..Len(DocElements)}
DynamicElements == {"d1"}

\* The a[href] elements, and the detached roots a page script inserts in
\* one mutation.
Links == {"a0", "a1", "a2", "a3"}
Insertions == {<<"d1">>, <<"d2">>, <<"a3">>, <<"d2", "d1">>}

\* Text nodes in document order, and the element each one is a child of.
DocTextNodes == <<"tTitle", "tP1", "tN1", "tP2", "tD1">>
TextNodes == {DocTextNodes[i] : i \in 1..Len(DocTextNodes)}
parentElement(n) ==
  CASE n = "tTitle" -> "title"
    [] n = "tP1" -> "p1"
    [] n = "tN1" -> "n1"
    [] n = "tP2" -> "p2"
    [] n = "tD1" -> "d1"

tagName(e) ==
  CASE e = "head" -> "HEAD"
    [] e = "title" -> "TITLE"
    [] e = "meta" -> "META"
    [] e = "body" -> "BODY"
    [] e = "img" -> "IMG"
    [] e \in {"d1", "d2"} -> "DIV"
    [] e \in Links -> "A"
    [] OTHER -> "P"

\* Elements carrying translate="no".
OptOut == {"n1"}

\* <meta name="..."> of a meta element.
metaName(e) == IF e = "meta" THEN "description" ELSE NoVal

\* window.innerHeight and getBoundingClientRect().top of an element.
ViewportHeight == 600
FoldBuffer == 200

\* The layout of the page the engine runs on: element -> top of its rect.
PageLayout == [e \in Elements |-> IF e \in {"p2", "d1"} THEN 900 ELSE 100]

StdAttrs == <<"alt", "title", "placeholder", "aria-label">>
AttrNames == {StdAttrs[i] : i \in 1..Len(StdAttrs)} \cup {"content"}

\* The translatable attributes the elements of the page carry, as
\* <<element, attribute>>; every other attribute is absent.
PageAttrs ==
  {<<"img", "alt">>, <<"img", "title">>, <<"meta", "content">>, <<"d1", "title">>,
   <<"n1", "title">>}

VARIABLES
  \* --- client engine -----------------------------------------------------
  nodeValue,        \* text node -> its nodeValue
  attr,             \* <<element, attribute>> -> value, for the attributes set
  parentOf,         \* element -> parent element, NoVal when detached
  linkHref,         \* link -> its href attribute, as tokens
  translationCache, \* Map: source string -> translation, NoVal when absent
  translatedNodes,  \* WeakSet of text nodes and elements
  isTranslating,    \* the flag of translateAllContent
  revealed,         \* documentElement has class altified-translated
  phase,            \* where translateAllContent is
  pass,             \* pass id -> state of that async pass
  observing,        \* the MutationObserver is started
  observerCalls,    \* how many times the observer started translateNewNodes
  \* --- history of the client engine --------------------------------------
  sendCount,        \* source string -> times it was put in a request
  sentCached,       \* a request carried a string the cache already held
  textWrites,       \* text node -> translation results written to it
  attrWrites,       \* <<element, attribute>> -> translation results written
  lastApplied,      \* the candidates of the apply step that just ran
  \* --- edge worker -------------------------------------------------------
  apiKey,           \* env.ALTIFIED_API_KEY is set
  serviceConfig,    \* what the configuration collaborator answers now
  configCache,      \* caches.default entry project_config_<key>: <<>> or <<c>>
  namesCache,       \* caches.default entry language_names: <<>> or <<map>>
  originVersion,    \* the content the origin serves now
  pageCache,        \* caches.default entries of translated pages
  response,         \* what the worker answered to the last request
  handled,          \* what the worker did for the last request
  requests,         \* how many requests the worker has handled
  \* --- the injectors applied to a document ------------------------------
  doc,              \* the HTML document the injectors are applied to
  lastInjector,     \* the injector applied last
  \* --- the link rewrite applied to an href ------------------------------
  link,             \* the href attribute of the link, as tokens
  linkInput,        \* the href the link had at first
  linkLang,         \* the language of the page
  linkRewrites,     \* how many times the rewrite was applied to the link
  \* --- the auto-detect script in a browser session ----------------------
  sessionFlag,      \* sessionStorage item altified_lang_detected is set
  browserLanguage,  \* navigator.language
  location,         \* window.location.pathname, as segments
  navigations,      \* how many times the script assigned location.href
  pageLoads,        \* how many page loads ran the script
  lastRun,          \* what the last run of the script saw and did
  \* --- layout -----------------------------------------------------------
  rect,             \* element -> getBoundingClientRect().top
  fold              \* the last subtree partitioned at the fold, and its parts

clientVars ==
  <<nodeValue, attr, parentOf, linkHref, translationCache, translatedNodes,
    isTranslating, revealed, phase, pass, observing, observerCalls,
    sendCount, sentCached, textWrites, attrWrites, lastApplied>>

edgeVars ==
  <<apiKey, serviceConfig, configCache, namesCache, originVersion, pageCache,
    response, handled, requests>>

injectorVars == <<doc, lastInjector>>

linkVars == <<link, linkInput, linkLang, linkRewrites>>

detectVars ==
  <<sessionFlag, browserLanguage, location, navigations, pageLoads, lastRun>>

foldVars == <<rect, fold>>

unitVars == <<injectorVars, linkVars, detectVars, foldVars>>

\* parent.getBoundingClientRect().top
rectTop(e) == rect[e]

vars == <<clientVars, edgeVars, unitVars>>

\* ------------------------------------------------------------------------
\* DOM helpers
\* ------------------------------------------------------------------------

\* The element ancestors of element e.
RECURSIVE Ancestors(_)
Ancestors(e) ==
  IF parentOf[e] = NoVal THEN {} ELSE {parentOf[e]} \cup Ancestors(parentOf[e])

\* Element.closest('[translate="no"]'): e itself or an ancestor matches.
closestOptOut(e) == ({e} \cup Ancestors(e)) \cap OptOut # {}

\* The text nodes a TreeWalker rooted at root visits.
UnderText(root, n) == root \in ({parentElement(n)} \cup Ancestors(parentElement(n)))

\* root.querySelectorAll matches descendants of root, never root itself.
UnderElement(root, e) == root \in Ancestors(e)

\* document.querySelectorAll matches the elements attached to the document.
InDocument(e) == "body" \in Ancestors(e)

SkipTags == {"SCRIPT", "STYLE", "NOSCRIPT", "IFRAME", "CODE", "PRE"}

Range(s) == {s[i] : i \in 1..Len(s)}

\* el.getAttribute(a): null (here "") when the attribute is absent.
getAttribute(e, a) == IF <<e, a>> \in DOMAIN attr THEN attr[<<e, a>>] ELSE ""

\* ------------------------------------------------------------------------
\* Extraction (index.js 523-640)
\* ------------------------------------------------------------------------

\* collectTextNodes without `if (translatedNodes.has(node)) continue`.
collectTextNodes_NoMarkerCheck(root) ==
  SelectSeq(DocTextNodes, LAMBDA n :
    /\ UnderText(root, n)
    /\ Trim(nodeValue[n]) # ""
    /\ ~closestOptOut(parentElement(n))
    /\ tagName(parentElement(n)) \notin SkipTags
    /\ (root = "head" => tagName(parentElement(n)) = "TITLE"))

\* collectTextNodes(root): the candidate text nodes under root.
collectTextNodes(root) ==
  SelectSeq(DocTextNodes, LAMBDA n :
    /\ UnderText(root, n)
    /\ n \notin translatedNodes
    /\ Trim(nodeValue[n]) # ""
    /\ ~closestOptOut(parentElement(n))
    /\ tagName(parentElement(n)) \notin SkipTags
    /\ (root = "head" => tagName(parentElement(n)) = "TITLE"))

\* Every (element, standard attribute) pair, elements in document order and
\* the four attribute names in the order of the inner forEach.
StdSlots ==
  [i \in 1..(Len(DocElements) * Len(StdAttrs)) |->
    [element |-> DocElements[((i - 1) \div Len(StdAttrs)) + 1],
     attribute |-> StdAttrs[((i - 1) % Len(StdAttrs)) + 1]]]

\* The meta elements of <head> whose content attribute is translated.
MetaNames ==
  <<"title", "description", "keywords", "og:title", "og:description",
    "twitter:title", "twitter:description">>

\* root.querySelector('meta[name=...]'): the first match in document order.
MetaSlots ==
  LET hit(k) == {i \in 1..Len(DocElements) :
                   /\ UnderElement("head", DocElements[i])
                   /\ tagName(DocElements[i]) = "META"
                   /\ metaName(DocElements[i]) = MetaNames[k]}
      first(k) == CHOOSE i \in hit(k) : \A j \in hit(k) : i <= j
      found == SelectSeq([k \in 1..Len(MetaNames) |-> k],
                         LAMBDA k : hit(k) # {})
  IN [j \in 1..Len(found) |->
        [element |-> DocElements[first(found[j])], attribute |-> "content"]]

\* collectAttributeNodes(root): the candidate attribute values under root.
collectAttributeNodes(root) ==
  LET live(slot) ==
        /\ getAttribute(slot.element, slot.attribute) # ""
        /\ Trim(getAttribute(slot.element, slot.attribute)) # ""
        /\ slot.element \notin translatedNodes
      std == SelectSeq(StdSlots, LAMBDA slot :
               UnderElement(root, slot.element) /\ live(slot))
      meta == IF root = "head" THEN SelectSeq(MetaSlots, live) ELSE <<>>
      all == std \o meta
  IN [i \in 1..Len(all) |->
        [element |-> all[i].element, attribute |-> all[i].attribute,
         text |-> Trim(getAttribute(all[i].element, all[i].attribute))]]

\* rect.top < viewportHeight + 200 (translateVisibleContent) and its
\* complement (translateBelowFoldContent).
\* The above-fold test without the 200px buffer.
AboveFold_NoBuffer(e) == rectTop(e) < ViewportHeight

AboveFold(e) == rectTop(e) < ViewportHeight + FoldBuffer
BelowFold(e) == rectTop(e) >= ViewportHeight + FoldBuffer

\* The candidates of each kind of pass: <<textNodes, attrNodes>>.
ContentCandidates(root) ==
  <<collectTextNodes(root), collectAttributeNodes(root)>>

VisibleCandidates(root) ==
  <<SelectSeq(collectTextNodes(root), LAMBDA n : AboveFold(parentElement(n))),
    SelectSeq(collectAttributeNodes(root), LAMBDA a : AboveFold(a.element))>>

BelowFoldCandidates(root) ==
  <<SelectSeq(collectTextNodes(root), LAMBDA n : BelowFold(parentElement(n))),
    SelectSeq(collectAttributeNodes(root), LAMBDA a : BelowFold(a.element))>>

\* texts = [...textNodes.map(n => n.nodeValue.trim()), ...attrNodes.map(a => a.text)]
TextsOf(cands) ==
  [i \in 1..Len(cands[1]) |-> Trim(nodeValue[cands[1][i]])]
    \o [i \in 1..Len(cands[2]) |-> cands[2][i].text]

\* ------------------------------------------------------------------------
\* Batch translation (index.js 642-674)
\* ------------------------------------------------------------------------

cacheHas(t) == t \in DOMAIN translationCache /\ translationCache[t] # NoVal
cacheGet(t) == IF cacheHas(t) THEN translationCache[t] ELSE NoVal

\* The batch without the filter on the cache.
toTranslate_Unfiltered(texts) == texts

\* const toTranslate = texts.filter(t => !cache.has(t) || cache.get(t) === t)
toTranslate(texts) ==
  SelectSeq(texts, LAMBDA t : ~cacheHas(t) \/ cacheGet(t) = t)

\* What the merge of a response does to the cache:
\*   data.translations.forEach(t => { if (t?.original && t?.translated)
\*     translationCache.set(t.original, t.translated) })
\* reply[t] says what the response holds for the requested string t: a
\* translation, the string itself, or no well-formed entry.
mergeTranslations(batch, reply) ==
  [t \in DOMAIN translationCache |->
    IF t \in Range(batch) /\ reply[t] = "translated" THEN Translated(t)
    ELSE IF t \in Range(batch) /\ reply[t] = "same" THEN t
    ELSE translationCache[t]]

Replies(batch) == [Range(batch) -> {"translated", "same", "omitted"}]

\* ------------------------------------------------------------------------
\* Passes
\* ------------------------------------------------------------------------

HeadPass == <<"head", 0>>
AbovePass == <<"above", 0>>
BelowPass == <<"below", 0>>
NewNodesPass(i) == <<"new", i>>
PassIds == {HeadPass, AbovePass, BelowPass} \cup {NewNodesPass(i) : i \in 1..MaxObserverCalls}

\* pc: idle, waiting (the batch request is in flight), resolved
\* (translateTexts returned, the pass's continuation is queued), done.
IdlePass ==
  [pc |-> "idle", root |-> NoVal, nodes |-> <<>>, idx |-> 0,
   textNodes |-> <<>>, attrNodes |-> <<>>, texts |-> <<>>, batch |-> <<>>]

\* A pass from its extraction up to its await of translateTexts(texts):
\*   if (texts.length === 0) return;  await translateTexts(texts);
BeginPass(root, cands, nodes, idx) ==
  LET texts == TextsOf(cands)
      batch == toTranslate(texts)
  IN [pc |-> IF texts = <<>> THEN "done"
             ELSE IF batch = <<>> THEN "resolved" ELSE "waiting",
      root |-> root, nodes |-> nodes, idx |-> idx,
      textNodes |-> cands[1], attrNodes |-> cands[2],
      texts |-> texts, batch |-> IF texts = <<>> THEN <<>> ELSE batch]

\* translateNewNodes(nodes) from its k-th node on: a node without texts is
\* skipped by `continue`, the first one with texts awaits its batch.
RECURSIVE NewNodesFrom(_, _)
NewNodesFrom(nodes, k) ==
  IF k > Len(nodes)
  THEN [IdlePass EXCEPT !.pc = "done", !.nodes = nodes, !.idx = k]
  ELSE IF TextsOf(ContentCandidates(nodes[k])) = <<>>
       THEN NewNodesFrom(nodes, k + 1)
       ELSE BeginPass(nodes[k], ContentCandidates(nodes[k]), nodes, k)

\* The texts a pass that just began put on the wire.
Sent(pr) == IF pr.pc = "waiting" THEN pr.batch ELSE <<>>

CountIn(seq, s) == Cardinality({i \in 1..Len(seq) : seq[i] = s})

\* Promise.race in place of Promise.all: one settled pass is enough.
AllSettled_Race(ps) == \E p \in ps : pass[p].pc = "done"

\* The reveal waiting for the below-fold pass as well.
AllSettled_WithBelow(ps) == \A p \in ps \cup {BelowPass} : pass[p].pc = "done"

\* Promise.all([...]) of the passes ps is fulfilled.
AllSettled(ps) == \A p \in ps : pass[p].pc = "done"

\* A continuation is queued: it runs before the next task.
MicrotaskPending ==
  \/ \E p \in PassIds : pass[p].pc = "resolved"
  \/ phase = "priority" /\ AllSettled({HeadPass, AbovePass})
  \/ phase = "deferred" /\ AllSettled({BelowPass})

\* ------------------------------------------------------------------------
\* Apply step (index.js 394-409, 438-453, 504-520, 721-737)
\* ------------------------------------------------------------------------

\* The apply test without the look at the cache.
applies_Unchecked(t) == TRUE

\* if (translated && translated !== texts[i])
applies(t) == cacheGet(t) # NoVal /\ cacheGet(t) # "" /\ cacheGet(t) # t

appliedNodeValue(pr) ==
  [n \in TextNodes |->
    IF \E i \in 1..Len(pr.textNodes) : pr.textNodes[i] = n /\ applies(pr.texts[i])
    THEN cacheGet(pr.texts[CHOOSE i \in 1..Len(pr.textNodes) : pr.textNodes[i] = n])
    ELSE nodeValue[n]]

\* The attribute candidates of pr that name attribute a of element e.
AttrIdx(pr, e, a) ==
  {i \in 1..Len(pr.attrNodes) :
     /\ pr.attrNodes[i].element = e
     /\ pr.attrNodes[i].attribute = a
     /\ applies(pr.texts[Len(pr.textNodes) + i])}

appliedAttr(pr) ==
  [s \in DOMAIN attr |->
    IF AttrIdx(pr, s[1], s[2]) # {}
    THEN cacheGet(pr.texts[Len(pr.textNodes) + CHOOSE i \in AttrIdx(pr, s[1], s[2]) : TRUE])
    ELSE attr[s]]

\* translatedNodes.add(node) / translatedNodes.add(a.element)
appliedMarks(pr) ==
  translatedNodes
    \cup {pr.textNodes[i] : i \in {j \in 1..Len(pr.textNodes) : applies(pr.texts[j])}}
    \cup {e \in Elements : \E a \in AttrNames : AttrIdx(pr, e, a) # {}}

NoApply == [root |-> NoVal, textNodes |-> <<>>, attrNodes |-> <<>>, texts |-> <<>>]

\* ------------------------------------------------------------------------
\* Hrefs and their rewrite (index.js 457-488 and 739-765)
\* ------------------------------------------------------------------------

\* An href is the sequence of its lexical tokens: the separators "/", "?",
\* "#", the dot segments ".", "..", a scheme with its colon and slashes
\* ("http://", "mailto:") and the names between them.  '/fr/about?q=1' is
\* <<"/", "fr", "/", "about", "?", "q=1">>; the empty href is <<>>.

\* href.startsWith(prefix)
startsWith(href, prefix) ==
  /\ Len(prefix) <= Len(href)
  /\ SubSeq(href, 1, Len(prefix)) = prefix

\* href.substring(2), of an href that starts with './'
substring2(href) == SubSeq(href, 3, Len(href))

\* var langPrefix = '/<lang>'
langPrefixOf(lang) == <<"/", lang>>

\* The body of links.forEach: the href the link has afterwards.
rewriteHref(href, lang) ==
  LET langPrefix == langPrefixOf(lang)
  IN IF href = <<>> THEN href
     ELSE IF startsWith(href, <<"http://">>) \/ startsWith(href, <<"https://">>) THEN href
     ELSE IF startsWith(href, <<"#">>) THEN href
     ELSE IF startsWith(href, <<"mailto:">>) \/ startsWith(href, <<"tel:">>) THEN href
     ELSE IF ~startsWith(href, langPrefix \o <<"/">>) /\ href # langPrefix
     THEN IF href = <<"/">> THEN langPrefix
          ELSE IF startsWith(href, <<"/">>) THEN langPrefix \o href
          ELSE IF startsWith(href, <<".", "/">>)
          THEN langPrefix \o <<"/">> \o substring2(href)
          ELSE langPrefix \o <<"/">> \o href
     ELSE href

\* The hrefs of the page's links as delivered and as page scripts build them.
PageHrefs ==
  [l \in Links |->
     CASE l = "a1" -> <<".", "/", "about">>
       [] l = "a3" -> <<"about">>
       [] OTHER -> <<"/", "about">>]

\* links.forEach over the a[href] elements `matched`.
rewrittenLinks(matched) ==
  [l \in Links |-> IF l \in matched THEN rewriteHref(linkHref[l], PageLang) ELSE linkHref[l]]

\* ------------------------------------------------------------------------
\* Initial state: the page as delivered, before DOMContentLoaded
\* ------------------------------------------------------------------------

ClientInit ==
  /\ nodeValue \in
       {[tTitle |-> a, tP1 |-> b, tN1 |-> "Hello", tP2 |-> c, tD1 |-> d] :
          a \in {"Hello", "World"}, b \in {"Hello", " Hello "},
          c \in {"World", "  "}, d \in {"Hello"}}
  /\ attr =
       [s \in PageAttrs |-> IF s = <<"img", "alt">> THEN "Hello" ELSE "World"]
  /\ parentOf =
       [e \in Elements |->
          CASE e \in {"title", "meta"} -> "head"
            [] e \in {"p1", "img", "n1", "p2", "a0"} -> "body"
            [] e = "a1" -> "d1"
            [] e = "a2" -> "d2"
            [] OTHER -> NoVal]
  /\ linkHref = PageHrefs
  /\ translationCache = [t \in SourceTexts |-> NoVal]
  /\ translatedNodes = {}
  /\ isTranslating = FALSE
  /\ revealed = FALSE
  /\ phase = "loading"
  /\ pass = [p \in PassIds |-> IdlePass]
  /\ observing = FALSE
  /\ observerCalls = 0
  /\ sendCount = [t \in SourceTexts |-> 0]
  /\ sentCached = FALSE
  /\ textWrites = [n \in TextNodes |-> 0]
  /\ attrWrites = [s \in PageAttrs |-> 0]
  /\ lastApplied = NoApply

\* ------------------------------------------------------------------------
\* History bookkeeping
\* ------------------------------------------------------------------------

\* The requests of the passes prs (each just begun) are recorded.
RecordSends(prs) ==
  /\ sendCount' =
       [t \in SourceTexts |->
          sendCount[t] + CountIn(Sent(prs[1]), t)
            + (IF Len(prs) > 1 THEN CountIn(Sent(prs[2]), t) ELSE 0)]
  /\ sentCached' =
       (sentCached \/ \E i \in 1..Len(prs) : \E t \in Range(Sent(prs[i])) : cacheHas(t))

\* ------------------------------------------------------------------------
\* Actions of the client engine
\* ------------------------------------------------------------------------

\* init() on DOMContentLoaded (index.js 327-331): rewriteInternalLinks();
\* translateAllContent runs up to its await of Promise.all, which starts the
\* head pass and the above-fold pass, each up to its own await; then
\* startObserver().
DOMContentLoaded ==
  /\ UNCHANGED <<edgeVars, unitVars>>
  /\ phase = "loading"
  /\ ~isTranslating
  /\ isTranslating' = TRUE
  /\ phase' = "priority"
  /\ observing' = TRUE
  /\ \E head \in {BeginPass("head", ContentCandidates("head"), <<>>, 0)} :
     \E above \in {BeginPass("body", VisibleCandidates("body"), <<>>, 0)} :
       /\ pass' = [pass EXCEPT ![HeadPass] = head, ![AbovePass] = above]
       /\ RecordSends(<<head, above>>)
  /\ linkHref' = rewrittenLinks({l \in Links : InDocument(l)})
  /\ lastApplied' = NoApply
  /\ UNCHANGED <<nodeValue, attr, parentOf, translationCache, translatedNodes,
                 revealed, observerCalls, textWrites, attrWrites>>

\* The batch request of pass p is answered with a well-formed payload
\* (index.js 658-670): its entries are merged into the cache.
BatchResponse(p, reply) ==
  /\ UNCHANGED <<edgeVars, unitVars>>
  /\ pass[p].pc = "waiting"
  /\ ~MicrotaskPending
  /\ translationCache' = mergeTranslations(pass[p].batch, reply)
  /\ pass' = [pass EXCEPT ![p].pc = "resolved"]
  /\ lastApplied' = NoApply
  /\ UNCHANGED <<nodeValue, attr, parentOf, linkHref, translatedNodes, isTranslating,
                 revealed, phase, observing, observerCalls, sendCount,
                 sentCached, textWrites, attrWrites>>

\* The batch request of pass p fails: a network error, a non-OK status or a
\* payload that cannot be read (index.js 658, 671-673).  The catch returns
\* null and the cache is untouched.
BatchFailure(p) ==
  /\ UNCHANGED <<edgeVars, unitVars>>
  /\ pass[p].pc = "waiting"
  /\ ~MicrotaskPending
  /\ pass' = [pass EXCEPT ![p].pc = "resolved"]
  /\ lastApplied' = NoApply
  /\ UNCHANGED <<nodeValue, attr, parentOf, linkHref, translationCache, translatedNodes,
                 isTranslating, revealed, phase, observing, observerCalls,
                 sendCount, sentCached, textWrites, attrWrites>>

\* The continuation of pass p after `await translateTexts(texts)`: the apply
\* step; translateNewNodes then rewrites the links node.querySelectorAll
\* matches (index.js 739-765) and goes on to its next node.
Resume(p) ==
  /\ UNCHANGED <<edgeVars, unitVars>>
  /\ pass[p].pc = "resolved"
  /\ \E pr \in {pass[p]} :
       /\ nodeValue' = appliedNodeValue(pr)
       /\ attr' = appliedAttr(pr)
       /\ translatedNodes' = appliedMarks(pr)
       /\ textWrites' =
            [n \in TextNodes |->
               textWrites[n] +
                 (IF \E i \in 1..Len(pr.textNodes) :
                       pr.textNodes[i] = n /\ applies(pr.texts[i])
                  THEN 1 ELSE 0)]
       /\ attrWrites' =
            [s \in PageAttrs |->
               attrWrites[s] + (IF AttrIdx(pr, s[1], s[2]) # {} THEN 1 ELSE 0)]
       /\ lastApplied' =
            [root |-> pr.root, textNodes |-> pr.textNodes,
             attrNodes |-> pr.attrNodes, texts |-> pr.texts]
       /\ UNCHANGED <<parentOf, translationCache>>
       /\ IF p[1] = "new"
          THEN /\ linkHref' = rewrittenLinks({l \in Links : UnderElement(pr.root, l)})
               /\ \E next \in {(NewNodesFrom(pr.nodes, pr.idx + 1))'} :
                    /\ pass' = [pass EXCEPT ![p] = next]
                    /\ RecordSends(<<next>>)
          ELSE /\ pass' = [pass EXCEPT ![p].pc = "done"]
               /\ UNCHANGED <<linkHref, sendCount, sentCached>>
  /\ UNCHANGED <<isTranslating, revealed, phase, observing, observerCalls>>

\* removeBlur() (index.js 333-340).
removeBlur == revealed' = TRUE

\* translateAllContent after `await Promise.all([...])` (index.js 354-358):
\* removeBlur(), then the below-fold pass up to its await.
PriorityDone ==
  /\ UNCHANGED <<edgeVars, unitVars>>
  /\ phase = "priority"
  /\ AllSettled({HeadPass, AbovePass})
  /\ removeBlur
  /\ phase' = "deferred"
  /\ \E below \in {BeginPass("body", BelowFoldCandidates("body"), <<>>, 0)} :
       /\ pass' = [pass EXCEPT ![BelowPass] = below]
       /\ RecordSends(<<below>>)
  /\ lastApplied' = NoApply
  /\ UNCHANGED <<nodeValue, attr, parentOf, linkHref, translationCache, translatedNodes,
                 isTranslating, observing, observerCalls, textWrites, attrWrites>>

\* translateAllContent after `await translateBelowFoldContent(...)`
\* (index.js 365).
DeferredDone ==
  /\ UNCHANGED <<edgeVars, unitVars>>
  /\ phase = "deferred"
  /\ AllSettled({BelowPass})
  /\ isTranslating' = FALSE
  /\ phase' = "finished"
  /\ lastApplied' = NoApply
  /\ UNCHANGED <<nodeValue, attr, parentOf, linkHref, translationCache, translatedNodes,
                 revealed, pass, observing, observerCalls, sendCount,
                 sentCached, textWrites, attrWrites>>

\* The observer callback's filter (index.js 681-691) over the added nodes.
observedNodes(added) ==
  SelectSeq(added, LAMBDA e : e \notin translatedNodes /\ ~closestOptOut(e))

\* A page script inserts the detached elements `added` under body; the
\* observer callback (index.js 677-697) runs right after and starts
\* translateNewNodes, which runs up to its first await.
InsertNodes(added) ==
  /\ UNCHANGED <<edgeVars, unitVars>>
  /\ observing
  /\ ~MicrotaskPending
  /\ observerCalls < MaxObserverCalls
  /\ \A i \in 1..Len(added) : parentOf[added[i]] = NoVal
  /\ parentOf' = [e \in Elements |-> IF e \in Range(added) THEN "body" ELSE parentOf[e]]
  /\ observerCalls' = observerCalls + 1
  /\ UNCHANGED <<nodeValue, attr, linkHref, translationCache, translatedNodes>>
  /\ \E newNodes \in {(observedNodes(added))'} :
       IF Len(newNodes) > 0
       THEN \E started \in {(NewNodesFrom(newNodes, 1))'} :
              /\ pass' = [pass EXCEPT ![NewNodesPass(observerCalls + 1)] = started]
              /\ RecordSends(<<started>>)
       ELSE UNCHANGED <<pass, sendCount, sentCached>>
  /\ lastApplied' = NoApply
  /\ UNCHANGED <<isTranslating, revealed, phase, observing, textWrites, attrWrites>>

\* A page script detaches a dynamic element.
RemoveNode(e) ==
  /\ UNCHANGED <<edgeVars, unitVars>>
  /\ observing
  /\ ~MicrotaskPending
  /\ observerCalls < MaxObserverCalls
  /\ e \in DynamicElements
  /\ parentOf[e] # NoVal
  /\ parentOf' = [parentOf EXCEPT ![e] = NoVal]
  /\ lastApplied' = NoApply
  /\ UNCHANGED <<nodeValue, attr, linkHref, translationCache, translatedNodes,
                 isTranslating, revealed, phase, pass, observing, observerCalls,
                 sendCount, sentCached, textWrites, attrWrites>>

ClientNext ==
  \/ DOMContentLoaded
  \/ \E p \in PassIds : \E reply \in Replies(pass[p].batch) : BatchResponse(p, reply)
  \/ \E p \in PassIds : BatchFailure(p)
  \/ \E p \in PassIds : Resume(p)
  \/ PriorityDone
  \/ DeferredDone
  \/ \E e \in DynamicElements : InsertNodes(<<e>>)
  \/ \E e \in DynamicElements : RemoveNode(e)

\* ------------------------------------------------------------------------
\* Edge worker: configuration (index.js 58-164)
\* ------------------------------------------------------------------------

\* Answers of the configuration collaborator.  has_targets = FALSE is a
\* payload without target_languages.
ConfigFrDe ==
  [default_language |-> "en", has_targets |-> TRUE, target_languages |-> <<"fr", "de">>]
ConfigFr ==
  [default_language |-> "en", has_targets |-> TRUE, target_languages |-> <<"fr">>]
ConfigNoTargets ==
  [default_language |-> "en", has_targets |-> FALSE, target_languages |-> <<>>]
ServiceConfigs == {ConfigFrDe, ConfigFr, ConfigNoTargets}

\* The code -> name map built from the language-name collaborator's answer,
\* as a set of <<code, name>>; the collaborator knows no name for "de".
ServiceNames == {<<"en", "English">>, <<"fr", "Francais">>}

\* The collaborator call of a request that fails (at most one per request).
Faults ==
  {"none", "configCacheRead", "configFetch", "configCacheWrite",
   "namesCacheRead", "namesFetch", "namesCacheWrite",
   "pageCacheRead", "originFetch", "inject", "pageCacheWrite"}

\* getProjectConfig(apiKey): the value returned (<<>> is null) and the
\* cache entry it leaves.
getProjectConfig(fault) ==
  IF fault # "configCacheRead" /\ configCache # <<>>
  THEN [value |-> configCache, cache |-> configCache]
  ELSE IF fault = "configFetch"
  THEN [value |-> <<>>, cache |-> configCache]
  ELSE [value |-> <<serviceConfig>>,
        cache |-> IF fault = "configCacheWrite" THEN configCache
                  ELSE <<serviceConfig>>]

\* getLanguageNames(): the map returned ({} on failure) and the cache entry
\* it leaves.
getLanguageNames(fault) ==
  IF fault # "namesCacheRead" /\ namesCache # <<>>
  THEN [value |-> namesCache[1], cache |-> namesCache]
  ELSE IF fault = "namesFetch"
  THEN [value |-> {}, cache |-> namesCache]
  ELSE [value |-> ServiceNames,
        cache |-> IF fault = "namesCacheWrite" THEN namesCache
                  ELSE <<ServiceNames>>]

\* ------------------------------------------------------------------------
\* Edge worker: paths
\* ------------------------------------------------------------------------

\* A pathname is the sequence of its segments after the leading slash:
\* "/" is <<"">>, "/fr/about/" is <<"fr", "about", "">>.
Paths == {<<"">>, <<"fr">>, <<"fr", "about", "">>, <<"en", "about">>}

\* url.pathname.split('/')
split(pathname) == <<"">> \o pathname

\* .filter(Boolean)
filterBoolean(parts) == SelectSeq(parts, LAMBDA x : x # "")

\* parts.slice(1)
slice1(parts) == IF Len(parts) <= 1 THEN <<>> ELSE Tail(parts)

\* '/' + parts.join('/'), as a pathname
slashJoin(parts) == IF parts = <<>> THEN <<"">> ELSE parts

\* ------------------------------------------------------------------------
\* Edge worker: HTML and the injectors (index.js 248-296, 773-884)
\* ------------------------------------------------------------------------

\* A page is the origin document (pathname, version), the anchors the
\* injectors look for (a <head ...> tag, </head>, </body>) and, per marker,
\* the sequence of fragments in the text that carry the marker: <<>> until
\* one is injected, unless the origin's own text holds the marker.
Html(pathname, version, headOpen, headClose, bodyClose) ==
  [pathname |-> pathname, version |-> version,
   headOpen |-> headOpen, headClose |-> headClose, bodyClose |-> bodyClose,
   engine |-> <<>>, context |-> <<>>, hreflang |-> <<>>, switcher |-> <<>>,
   detect |-> <<>>]

\* The document the origin serves at pathname: a complete HTML page.
OriginHtml(pathname, version) == Html(pathname, version, TRUE, TRUE, TRUE)

\* The origin's own text holding a marker.
Own == "own"
OwnHreflang == [default |-> Own, targets |-> <<>>, pathname |-> <<>>]
OwnSwitcher == << <<Own, Own>> >>
OwnDetect == [default |-> Own, targets |-> <<>>]

\* /<head[^>]*>/ has a match: the page's own tag, or the "<head>" in the
\* comments of the injected engine script (index.js 542, 570).
matchesHeadOpen(html) ==
  html.headOpen \/ \E i \in 1..Len(html.engine) : html.engine[i] # Own

\* if (html.includes('__ALTIFIED_AUTO_TRANSLATE__')) return html;
\* return html.replace('</head>', script + '\n</head>')
injectAutoTranslation(html, lang) ==
  IF html.engine # <<>> THEN html
  ELSE IF ~html.headClose THEN html
  ELSE [html EXCEPT !.engine = Append(@, lang)]

injectLanguageContext(html, lang) ==
  IF html.context # <<>> THEN html
  ELSE IF ~matchesHeadOpen(html) THEN html
  ELSE [html EXCEPT !.context = Append(@, lang)]

\* addHreflangLinks without the marker test.
addHreflangLinks_NoMarkerCheck(html, pathname, projectConfig) ==
  IF ~html.headClose THEN html
  ELSE [html EXCEPT !.hreflang =
          Append(@, [default |-> projectConfig.default_language,
                     targets |-> projectConfig.target_languages,
                     pathname |-> pathname])]

\* One alternate link for the default language, one per target language at
\* /<lang><pathname>, and x-default.
addHreflangLinks(html, pathname, projectConfig) ==
  IF html.hreflang # <<>> THEN html
  ELSE IF ~html.headClose THEN html
  ELSE [html EXCEPT !.hreflang =
          Append(@, [default |-> projectConfig.default_language,
                     targets |-> projectConfig.target_languages,
                     pathname |-> pathname])]

toUpperCase(code) ==
  CASE code = "en" -> "EN" [] code = "fr" -> "FR" [] code = "de" -> "DE"
    [] OTHER -> code

\* languageNames[code] || code.toUpperCase()
getLanguageName(languageNames, code) ==
  IF \E n \in languageNames : n[1] = code
  THEN (CHOOSE n \in languageNames : n[1] = code)[2]
  ELSE toUpperCase(code)

\* The switcher's options: the default language, then the target languages.
injectLanguageSwitcher(html, projectConfig, languageNames) ==
  IF html.switcher # <<>> THEN html
  ELSE IF ~html.bodyClose THEN html
  ELSE LET codes == <<projectConfig.default_language>> \o projectConfig.target_languages
       IN [html EXCEPT !.switcher =
             Append(@, [i \in 1..Len(codes) |->
                          <<codes[i], getLanguageName(languageNames, codes[i])>>])]

injectAutoLanguageDetection(html, projectConfig) ==
  IF html.detect # <<>> THEN html
  ELSE IF ~matchesHeadOpen(html) THEN html
  ELSE [html EXCEPT !.detect =
          Append(@, [default |-> projectConfig.default_language,
                     targets |-> projectConfig.target_languages])]

\* The injections of handleTranslatedRequest, in its order (index.js 195-200).
translatedInjections(html, lang, pathname, projectConfig, languageNames) ==
  injectLanguageSwitcher(
    addHreflangLinks(
      injectLanguageContext(injectAutoTranslation(html, lang), lang),
      pathname, projectConfig),
    projectConfig, languageNames)

\* ------------------------------------------------------------------------
\* Edge worker: responses
\* ------------------------------------------------------------------------

\* What the origin answers to a fetch of pathname: a page, an HTML error
\* page or an asset.
OriginKinds == {"page", "missing", "asset"}
originResponse(pathname, kind) ==
  [status |-> IF kind = "missing" THEN 404 ELSE 200,
   contentType |-> IF kind = "asset" THEN "image/png" ELSE "text/html",
   html |-> OriginHtml(pathname, originVersion)]

\* response.ok
ok(r) == r.status >= 200 /\ r.status <= 299

\* contentType.includes('html')
includesHtml(contentType) == contentType \in {"text/html", "application/xhtml+xml"}

\* `return fetch(request)`: the worker hands the original request to the
\* origin and answers whatever the origin answers.
forward(pathname) ==
  [via |-> "forward", status |-> 0, contentType |-> "",
   html |-> OriginHtml(pathname, originVersion),
   contentLanguage |-> <<>>, cacheControl |-> <<>>]

\* `return response`: the origin's response as it came.
passThrough(r) ==
  [via |-> "origin", status |-> r.status, contentType |-> r.contentType,
   html |-> r.html, contentLanguage |-> <<>>, cacheControl |-> <<>>]

\* A rejection nobody catches: the runtime answers with an error page.
uncaught ==
  [via |-> "error", status |-> 500, contentType |-> "",
   html |-> OriginHtml(<<>>, ""), contentLanguage |-> <<>>, cacheControl |-> <<>>]

\* handleTranslatedRequest, steps 2 and 3 and the final response
\* (index.js 192-208).
translatedPage(r, lang, originPath, projectConfig, languageNames) ==
  [via |-> "augmented", status |-> r.status, contentType |-> r.contentType,
   html |-> translatedInjections(r.html, lang, originPath, projectConfig,
                                 languageNames),
   contentLanguage |-> <<lang>>, cacheControl |-> <<"public, max-age=3600">>]

\* handleDefaultLanguagePage, the injections and the response
\* (index.js 226-238).
defaultPage(r, projectConfig, languageNames) ==
  [via |-> "augmented", status |-> r.status, contentType |-> r.contentType,
   html |-> injectLanguageSwitcher(
              injectAutoLanguageDetection(r.html, projectConfig),
              projectConfig, languageNames),
   contentLanguage |-> <<>>, cacheControl |-> <<>>]

\* if (cached) return new Response(cached.body, cached)
servedFromCache(entry) == [entry.response EXCEPT !.via = "cached"]

\* The cache key: Request(url, {headers: {'X-Lang': lang}}).
cacheKey(pathname, lang) == <<pathname, lang>>

\* cache.match(cacheKey): the entries stored under the key (none or one).
cacheMatch(key) == {e \in pageCache : e.key = key}

\* What a request handler reports: the response, and as history the
\* route taken, the path and response of the pipeline's origin fetch, the
\* cache entry served and the cache entry handed to ctx.waitUntil.
Outcome(resp, route, lang, originPath, origin, hit, stored) ==
  [response |-> resp, route |-> route, lang |-> lang, originPath |-> originPath,
   origin |-> origin, hit |-> hit, stored |-> stored]

\* handleTranslatedRequest (index.js 166-215).
handleTranslatedRequest(pathname, lang, originalPath, projectConfig, languageNames, fault, kind) ==
  LET key == cacheKey(pathname, lang)
      r == originResponse(originalPath, kind)
      final == translatedPage(r, lang, originalPath, projectConfig, languageNames)
      entry == [key |-> key, response |-> final]
      out(resp, originPath, origin, hit, stored) ==
        Outcome(resp, "translated", lang, originPath, origin, hit, stored)
  IN IF fault = "pageCacheRead"
     THEN out(uncaught, <<>>, <<>>, <<>>, <<>>)
     ELSE IF cacheMatch(key) # {}
     THEN LET cached == CHOOSE e \in cacheMatch(key) : TRUE
          IN out(servedFromCache(cached), <<>>, <<>>, <<cached>>, <<>>)
     ELSE IF fault = "originFetch"
     THEN out(forward(pathname), originalPath, <<>>, <<>>, <<>>)
     ELSE IF ~ok(r) \/ ~includesHtml(r.contentType)
     THEN out(passThrough(r), originalPath, <<r>>, <<>>, <<>>)
     ELSE IF fault = "inject"
     THEN out(forward(pathname), originalPath, <<r>>, <<>>, <<>>)
     ELSE out(final, originalPath, <<r>>, <<>>, <<entry>>)

\* handleDefaultLanguagePage (index.js 217-242).
handleDefaultLanguagePage(pathname, projectConfig, languageNames, fault, kind) ==
  LET r == originResponse(pathname, kind)
      out(resp, origin) == Outcome(resp, "default", NoVal, pathname, origin, <<>>, <<>>)
  IN IF fault = "originFetch"
     THEN out(forward(pathname), <<>>)
     ELSE IF ~includesHtml(r.contentType)
     THEN out(passThrough(r), <<r>>)
     ELSE IF fault = "inject"
     THEN out(forward(pathname), <<r>>)
     ELSE out(defaultPage(r, projectConfig, languageNames), <<r>>)

\* The fetch handler after the configuration is resolved (index.js 36-51).
route(pathname, projectConfig, languageNames, fault, kind) ==
  LET enabledLanguages == projectConfig.target_languages
      parts == filterBoolean(split(pathname))
      firstSegment == IF parts = <<>> THEN NoVal ELSE parts[1]
  IN IF firstSegment \in Range(enabledLanguages)
     THEN handleTranslatedRequest(pathname, firstSegment, slashJoin(slice1(parts)),
                                  projectConfig, languageNames, fault, kind)
     ELSE handleDefaultLanguagePage(pathname, projectConfig, languageNames, fault, kind)

\* An augmented page in place of the passthrough.
passthrough_Augmented(pathname) ==
  Outcome(defaultPage(originResponse(pathname, "page"), ConfigFrDe, {}),
          "passthrough", NoVal, <<>>, <<>>, <<>>, <<>>)

\* `return fetch(request)` before any pipeline (index.js 22-31).
passthrough(pathname) ==
  Outcome(forward(pathname), "passthrough", NoVal, <<>>, <<>>, <<>>, <<>>)

NoRequest ==
  [pathname |-> <<>>, fault |-> "none", route |-> "none", lang |-> NoVal,
   originPath |-> <<>>, origin |-> <<>>, hit |-> <<>>, stored |-> <<>>,
   config |-> <<>>, names |-> {}]

NoResponse ==
  [via |-> "none", status |-> 0, contentType |-> "",
   html |-> OriginHtml(<<>>, ""), contentLanguage |-> <<>>, cacheControl |-> <<>>]

\* ------------------------------------------------------------------------
\* Edge worker: initial state and actions
\* ------------------------------------------------------------------------

OriginVersions == {"v1", "v2"}

EdgeInit ==
  /\ apiKey \in BOOLEAN
  /\ serviceConfig = ConfigFrDe
  /\ configCache = <<>>
  /\ namesCache = <<>>
  /\ originVersion = "v1"
  /\ pageCache = {}
  /\ response = NoResponse
  /\ handled = NoRequest
  /\ requests = 0

\* The worker's fetch handler (index.js 17-55) for a request of pathname;
\* `fault` is the collaborator call that fails while it runs and `kind` is
\* what the origin answers.  The cache.put handed to ctx.waitUntil settles
\* before the next request.
Request(pathname, fault, kind) ==
  /\ UNCHANGED <<clientVars, unitVars>>
  /\ requests < MaxRequests
  /\ requests' = requests + 1
  /\ LET cfg == getProjectConfig(fault)
         usable == cfg.value # <<>> /\ cfg.value[1].has_targets
         names == getLanguageNames(fault)
     IN \E out \in {IF ~apiKey \/ ~usable
                    THEN passthrough(pathname)
                    ELSE route(pathname, cfg.value[1], names.value, fault, kind)} :
        /\ configCache' = IF apiKey THEN cfg.cache ELSE configCache
        /\ namesCache' = IF apiKey /\ usable THEN names.cache ELSE namesCache
        /\ pageCache' =
             IF out.stored # <<>> /\ fault # "pageCacheWrite"
             THEN {e \in pageCache : e.key # out.stored[1].key} \cup {out.stored[1]}
             ELSE pageCache
        /\ response' = out.response
        /\ handled' =
             [pathname |-> pathname, fault |-> fault, route |-> out.route,
              lang |-> out.lang, originPath |-> out.originPath,
              origin |-> out.origin, hit |-> out.hit, stored |-> out.stored,
              config |-> IF apiKey THEN cfg.value ELSE <<>>,
              names |-> IF apiKey /\ usable THEN names.value ELSE {}]
  /\ UNCHANGED <<apiKey, serviceConfig, originVersion>>

\* The environment of the worker changes between requests; what changes
\* after the last request of a run is seen by no request.

\* The project's configuration is changed at the collaborator.
ConfigChanges(c) ==
  /\ UNCHANGED <<clientVars, unitVars>>
  /\ requests < MaxRequests
  /\ c # serviceConfig
  /\ serviceConfig' = c
  /\ UNCHANGED <<apiKey, configCache, namesCache, originVersion, pageCache,
                 response, handled, requests>>

\* The cached configuration reaches its max-age (CONFIG.CACHE_TTL).
ConfigExpires ==
  /\ UNCHANGED <<clientVars, unitVars>>
  /\ requests < MaxRequests
  /\ configCache # <<>>
  /\ configCache' = <<>>
  /\ UNCHANGED <<apiKey, serviceConfig, namesCache, originVersion, pageCache,
                 response, handled, requests>>

\* The origin publishes other content.
OriginChanges(v) ==
  /\ UNCHANGED <<clientVars, unitVars>>
  /\ requests < MaxRequests
  /\ v # originVersion
  /\ originVersion' = v
  /\ UNCHANGED <<apiKey, serviceConfig, configCache, namesCache, pageCache,
                 response, handled, requests>>

\* A cached page reaches its max-age of 3600 s.
PageExpires(e) ==
  /\ UNCHANGED <<clientVars, unitVars>>
  /\ requests < MaxRequests
  /\ e \in pageCache
  /\ pageCache' = pageCache \ {e}
  /\ UNCHANGED <<apiKey, serviceConfig, configCache, namesCache, originVersion,
                 response, handled, requests>>

\* The worker is deployed again without ALTIFIED_API_KEY; caches.default
\* keeps what it holds.
KeyRemoved ==
  /\ UNCHANGED <<clientVars, unitVars>>
  /\ requests < MaxRequests
  /\ apiKey
  /\ apiKey' = FALSE
  /\ UNCHANGED <<serviceConfig, configCache, namesCache, originVersion,
                 pageCache, response, handled, requests>>

EdgeNext ==
  \/ \E pathname \in Paths : \E fault \in Faults : \E kind \in OriginKinds :
       Request(pathname, fault, kind)
  \/ \E c \in ServiceConfigs : ConfigChanges(c)
  \/ ConfigExpires
  \/ \E v \in OriginVersions : OriginChanges(v)
  \/ \E e \in pageCache : PageExpires(e)
  \/ KeyRemoved

\* ------------------------------------------------------------------------
\* The injectors applied to arbitrary documents
\* ------------------------------------------------------------------------

Langs == {"fr", "de"}
UsableConfigs == {ConfigFrDe, ConfigFr}
NameMaps == {ServiceNames, {}}

\* The documents handed to the injectors: every combination of anchors, and
\* every combination of markers in the origin's own text.
HtmlInputs ==
  {[Html(<<"about">>, "v1", ho, hc, bc) EXCEPT
      !.engine = IF "engine" \in own THEN <<Own>> ELSE <<>>,
      !.context = IF "context" \in own THEN <<Own>> ELSE <<>>,
      !.hreflang = IF "hreflang" \in own THEN <<OwnHreflang>> ELSE <<>>,
      !.switcher = IF "switcher" \in own THEN <<OwnSwitcher>> ELSE <<>>,
      !.detect = IF "detect" \in own THEN <<OwnDetect>> ELSE <<>>] :
     ho \in BOOLEAN, hc \in BOOLEAN, bc \in BOOLEAN,
     own \in SUBSET {"engine", "context", "hreflang", "switcher", "detect"}}

InjectorIdle ==
  /\ doc = OriginHtml(<<>>, "")
  /\ lastInjector = "none"

InjectorInit ==
  /\ doc \in HtmlInputs
  /\ lastInjector = "none"

\* One application of an injector to the document; an injector that has
\* just run is the one applied again.
ApplyAutoTranslation(lang) ==
  /\ lastInjector \in {"none", "injectAutoTranslation"}
  /\ doc' = injectAutoTranslation(doc, lang)
  /\ lastInjector' = "injectAutoTranslation"
  /\ UNCHANGED <<clientVars, edgeVars, linkVars, detectVars, foldVars>>

ApplyLanguageContext(lang) ==
  /\ lastInjector \in {"none", "injectLanguageContext"}
  /\ doc' = injectLanguageContext(doc, lang)
  /\ lastInjector' = "injectLanguageContext"
  /\ UNCHANGED <<clientVars, edgeVars, linkVars, detectVars, foldVars>>

ApplyHreflangLinks(projectConfig) ==
  /\ lastInjector \in {"none", "addHreflangLinks"}
  /\ doc' = addHreflangLinks(doc, doc.pathname, projectConfig)
  /\ lastInjector' = "addHreflangLinks"
  /\ UNCHANGED <<clientVars, edgeVars, linkVars, detectVars, foldVars>>

ApplyLanguageSwitcher(projectConfig, languageNames) ==
  /\ lastInjector \in {"none", "injectLanguageSwitcher"}
  /\ doc' = injectLanguageSwitcher(doc, projectConfig, languageNames)
  /\ lastInjector' = "injectLanguageSwitcher"
  /\ UNCHANGED <<clientVars, edgeVars, linkVars, detectVars, foldVars>>

ApplyAutoLanguageDetection(projectConfig) ==
  /\ lastInjector \in {"none", "injectAutoLanguageDetection"}
  /\ doc' = injectAutoLanguageDetection(doc, projectConfig)
  /\ lastInjector' = "injectAutoLanguageDetection"
  /\ UNCHANGED <<clientVars, edgeVars, linkVars, detectVars, foldVars>>

ApplyTranslatedInjections(lang, projectConfig, languageNames) ==
  /\ lastInjector \in {"none", "translatedInjections"}
  /\ doc' = translatedInjections(doc, lang, doc.pathname, projectConfig, languageNames)
  /\ lastInjector' = "translatedInjections"
  /\ UNCHANGED <<clientVars, edgeVars, linkVars, detectVars, foldVars>>

InjectorNext ==
  \/ \E lang \in Langs : ApplyAutoTranslation(lang)
  \/ \E lang \in Langs : ApplyLanguageContext(lang)
  \/ \E c \in UsableConfigs : ApplyHreflangLinks(c)
  \/ \E c \in UsableConfigs : \E n \in NameMaps : ApplyLanguageSwitcher(c, n)
  \/ \E c \in UsableConfigs : ApplyAutoLanguageDetection(c)
  \/ \E lang \in Langs : \E c \in UsableConfigs : \E n \in NameMaps :
       ApplyTranslatedInjections(lang, c, n)

\* ------------------------------------------------------------------------
\* The link rewrite (index.js 457-488 and 739-765)
\* ------------------------------------------------------------------------

\* The paths of the hrefs the rewrite is applied to.
HrefPaths ==
  {<<"/">>, <<"/", "about">>, <<".", "/", "about">>, <<"about">>,
   <<"..", "/", "about">>, <<"/", "french">>,
   <<"/", "fr">>, <<"/", "fr", "/">>, <<"/", "fr", "/", "about">>,
   <<"/", "de">>, <<"/", "de", "/", "about">>}

\* What follows the path: nothing, a query or a fragment.
HrefSuffixes == {<<>>, <<"?", "q=1">>, <<"#", "top">>}

\* The hrefs that are no path of this site.
OtherHrefs ==
  {<<>>, <<"#", "top">>, <<"mailto:", "a@b.c">>, <<"tel:", "123">>,
   <<"http://", "other.host", "/", "x">>, <<"https://", "other.host", "/", "x">>,
   <<"/", "/", "other.host", "/", "x">>}

Hrefs == {path \o suffix : path \in HrefPaths, suffix \in HrefSuffixes} \cup OtherHrefs

LinkIdle ==
  /\ link = <<>>
  /\ linkInput = <<>>
  /\ linkLang = "fr"
  /\ linkRewrites = 0

LinkInit ==
  /\ link \in Hrefs
  /\ linkInput = link
  /\ linkLang \in Langs
  /\ linkRewrites = 0

\* rewriteInternalLinks (index.js 457-488) reaches the link.
RewriteAtBootstrap ==
  /\ linkRewrites = 0
  /\ link' = rewriteHref(link, linkLang)
  /\ linkRewrites' = linkRewrites + 1
  /\ UNCHANGED <<linkInput, linkLang>>
  /\ UNCHANGED <<clientVars, edgeVars, injectorVars, detectVars, foldVars>>

\* The rewrite of translateNewNodes (index.js 739-765) reaches the link.
RewriteInNewNode ==
  /\ linkRewrites < MaxRewrites
  /\ link' = rewriteHref(link, linkLang)
  /\ linkRewrites' = linkRewrites + 1
  /\ UNCHANGED <<linkInput, linkLang>>
  /\ UNCHANGED <<clientVars, edgeVars, injectorVars, detectVars, foldVars>>

LinkNext == RewriteAtBootstrap \/ RewriteInNewNode

\* ------------------------------------------------------------------------
\* The fold partition of a subtree (index.js 369-383 and 413-427)
\* ------------------------------------------------------------------------

NoFold ==
  [root |-> NoVal, above |-> <<<<>>, <<>>>>, below |-> <<<<>>, <<>>>>,
   full |-> <<<<>>, <<>>>>]

FoldIdle ==
  /\ rect = PageLayout
  /\ fold = NoFold

\* The layouts: the elements of the body at, just above and far from the
\* line at viewportHeight + 200.
Tops == {100, 799, 800, 900}
Layouts ==
  {[PageLayout EXCEPT !["p1"] = a, !["img"] = b, !["p2"] = c] :
     a \in Tops, b \in Tops, c \in Tops}

FoldInit ==
  /\ rect \in Layouts
  /\ fold = NoFold

\* The candidates translateVisibleContent(root) and
\* translateBelowFoldContent(root) select, and the full extraction of
\* root, all taken at the same moment.
PartitionAtFold(root) ==
  /\ fold' = [root |-> root, above |-> VisibleCandidates(root),
              below |-> BelowFoldCandidates(root),
              full |-> ContentCandidates(root)]
  /\ UNCHANGED rect
  /\ UNCHANGED <<clientVars, edgeVars, injectorVars, linkVars, detectVars>>

FoldNext == \E root \in Elements : PartitionAtFold(root)

\* ------------------------------------------------------------------------
\* The auto-detect script in a browser session (index.js 254-284)
\* ------------------------------------------------------------------------

\* What a run of the script saw and did: where the run is, the flag it
\* found, the language code it computed, the configuration written into
\* the script and whether it assigned location.href.
NoRun ==
  [pc |-> "idle", flagBefore |-> FALSE, navigated |-> FALSE, langCode |-> "",
   config |-> <<>>]

DetectIdle ==
  /\ sessionFlag = FALSE
  /\ browserLanguage = "en-US"
  /\ location = <<"">>
  /\ navigations = 0
  /\ pageLoads = 0
  /\ lastRun = NoRun

\* navigator.language of the browsers.
BrowserLanguages == {"fr-FR", "FR", "de", "en-US", "es-ES"}

\* browserLang.split('-')[0].toLowerCase()
primarySubtag(browserLang) ==
  CASE browserLang \in {"fr-FR", "FR"} -> "fr"
    [] browserLang = "de" -> "de"
    [] browserLang = "en-US" -> "en"
    [] browserLang = "es-ES" -> "es"

\* The configurations written into the script: the usable ones, and one
\* whose default language is also listed as a target.
ConfigDefaultFr ==
  [default_language |-> "fr", has_targets |-> TRUE, target_languages |-> <<"fr", "de">>]
DetectConfigs == UsableConfigs \cup {ConfigDefaultFr}

\* sessionStorage.getItem('altified_lang_detected'), never answering.
sessionGetItem_Never(flag) == FALSE

\* sessionStorage.getItem('altified_lang_detected')
sessionGetItem(flag) == flag

DetectInit ==
  /\ sessionFlag = FALSE
  /\ browserLanguage \in BrowserLanguages
  /\ location \in {<<"">>, <<"about">>}
  /\ navigations = 0
  /\ pageLoads = 0
  /\ lastRun = NoRun

\* A page carrying the script (built with projectConfig) loads at the
\* current location; the script runs up to the navigation decision
\* (index.js 256-271).
DetectRun(projectConfig) ==
  /\ lastRun.pc = "idle"
  /\ pageLoads < MaxPageLoads
  /\ pageLoads' = pageLoads + 1
  /\ IF sessionGetItem(sessionFlag)
     THEN /\ lastRun' = [pc |-> "idle", flagBefore |-> TRUE, navigated |-> FALSE,
                         langCode |-> "", config |-> <<projectConfig>>]
          /\ UNCHANGED sessionFlag
     ELSE /\ sessionFlag' = TRUE
          /\ lastRun' = [pc |-> "decide", flagBefore |-> FALSE, navigated |-> FALSE,
                         langCode |-> primarySubtag(browserLanguage),
                         config |-> <<projectConfig>>]
  /\ UNCHANGED <<browserLanguage, location, navigations>>
  /\ UNCHANGED <<clientVars, edgeVars, injectorVars, linkVars, foldVars>>

\* The navigation decision of the script (index.js 273-280).
DetectDecide ==
  /\ lastRun.pc = "decide"
  /\ LET langCode == lastRun.langCode
         targetLanguages == lastRun.config[1].target_languages
         defaultLanguage == lastRun.config[1].default_language
     IN IF langCode \in Range(targetLanguages) /\ langCode # defaultLanguage
        THEN /\ location' = <<langCode>> \o location
             /\ navigations' = navigations + 1
             /\ lastRun' = [lastRun EXCEPT !.pc = "idle", !.navigated = TRUE]
        ELSE /\ lastRun' = [lastRun EXCEPT !.pc = "idle"]
             /\ UNCHANGED <<location, navigations>>
  /\ UNCHANGED <<sessionFlag, browserLanguage, pageLoads>>
  /\ UNCHANGED <<clientVars, edgeVars, injectorVars, linkVars, foldVars>>

DetectNext ==
  \/ \E c \in DetectConfigs : DetectRun(c)
  \/ DetectDecide

\* The two halves run in different places: while the engine of one page view
\* is followed the worker handles no request, and the other way round.
EdgeIdle ==
  /\ apiKey = TRUE
  /\ serviceConfig = ConfigFrDe
  /\ configCache = <<>>
  /\ namesCache = <<>>
  /\ originVersion = "v1"
  /\ pageCache = {}
  /\ response = NoResponse
  /\ handled = NoRequest
  /\ requests = 0

ClientIdle ==
  /\ ClientInit
  /\ nodeValue["tTitle"] = "Hello"
  /\ nodeValue["tP1"] = "Hello"
  /\ nodeValue["tP2"] = "World"

UnitIdle == InjectorIdle /\ LinkIdle /\ DetectIdle /\ FoldIdle

Init == ClientInit /\ EdgeIdle /\ UnitIdle

Next == ClientNext

Spec == Init /\ [][Next]_vars

\* The batch request of pass p completes, with a response or a failure.
BatchCompletes(p) ==
  \/ BatchFailure(p)
  \/ \E reply \in Replies(pass[p].batch) : BatchResponse(p, reply)

\* What the event loop and the network do for sure: DOMContentLoaded is
\* dispatched, queued continuations run, and the batch requests of the head
\* pass and of the above-fold pass complete.  Nothing is assumed of the
\* other requests.
Scheduled ==
  \/ DOMContentLoaded
  \/ \E p \in {HeadPass, AbovePass} : BatchCompletes(p)
  \/ \E p \in PassIds : Resume(p)
  \/ PriorityDone

\* The page view of the page as delivered, under that scheduling.
LiveStart == ClientIdle /\ EdgeIdle /\ UnitIdle

LiveSpec == LiveStart /\ [][Next]_vars /\ WF_vars(Scheduled)

\* The page view in which page scripts insert any of the detached roots.
SubtreeStart == ClientIdle /\ EdgeIdle /\ UnitIdle

SubtreeNext ==
  \/ ClientNext
  \/ \E added \in Insertions : InsertNodes(added)

SubtreeSpec == SubtreeStart /\ [][SubtreeNext]_vars

EdgeStart == ClientIdle /\ EdgeInit /\ UnitIdle

InjectorStart ==
  ClientIdle /\ EdgeIdle /\ InjectorInit /\ LinkIdle /\ DetectIdle /\ FoldIdle

LinkStart ==
  ClientIdle /\ EdgeIdle /\ InjectorIdle /\ LinkInit /\ DetectIdle /\ FoldIdle

FoldStart ==
  ClientIdle /\ EdgeIdle /\ InjectorIdle /\ LinkIdle /\ DetectIdle /\ FoldInit

FoldSpec == FoldStart /\ [][FoldNext]_vars

DetectStart ==
  ClientIdle /\ EdgeIdle /\ InjectorIdle /\ LinkIdle /\ DetectInit /\ FoldIdle

DetectSpec == DetectStart /\ [][DetectNext]_vars

LinkSpec == LinkStart /\ [][LinkNext]_vars

InjectorSpec == InjectorStart /\ [][InjectorNext]_vars

EdgeSpec == EdgeStart /\ [][EdgeNext]_vars

\* ------------------------------------------------------------------------
\* Claims about the client engine
\* ------------------------------------------------------------------------

\* C1: over a page view every source string is put in requests to the
\* translation collaborator at most once in total, and no request carries a
\* string the translation cache already holds (even mapped to itself).
C1_SentAtMostOnce ==
  /\ \A t \in SourceTexts : sendCount[t] <= 1
  /\ ~sentCached

\* C2: when the candidates of a pass hold the same source string more than
\* once, the batch that pass sends holds that string once, not several times.
C2_BatchHasNoDuplicate ==
  \A p \in PassIds :
    pass[p].pc = "waiting" =>
      \A t \in SourceTexts :
        CountIn(pass[p].texts, t) > 1 => CountIn(pass[p].batch, t) = 1

\* C3: over a page view a translation result is written at most once to
\* every text node and to every translatable attribute of an element.
C3_WrittenAtMostOnce ==
  /\ \A n \in TextNodes : textWrites[n] <= 1
  /\ \A s \in PageAttrs : attrWrites[s] <= 1

\* C4: a text node or element in the translated-marker set is returned by no
\* extraction (collectTextNodes, collectAttributeNodes) over any subtree.
C4_MarkedNeverExtracted ==
  \A root \in Elements :
    /\ \A n \in Range(collectTextNodes(root)) : n \notin translatedNodes
    /\ \A a \in Range(collectAttributeNodes(root)) : a.element \notin translatedNodes

\* C4 witness: a marked text node and a marked element are in the document
\* under body while extraction over body still returns other candidates.
C4_Witness ==
  /\ "tP1" \in translatedNodes
  /\ "img" \in translatedNodes
  /\ collectTextNodes("body") # <<>>

\* C5: right after the apply step of a pass, every candidate of it (text node
\* or single attribute value) whose source string is absent from the cache or
\* mapped to itself has kept its value, is not in the translated-marker set
\* and is returned again by extraction over the root the pass used.
C5_UntranslatedStaysEligible ==
  /\ \A i \in 1..Len(lastApplied.textNodes) :
       ~applies(lastApplied.texts[i]) =>
         /\ Trim(nodeValue[lastApplied.textNodes[i]]) = lastApplied.texts[i]
         /\ lastApplied.textNodes[i] \notin translatedNodes
         /\ lastApplied.textNodes[i] \in Range(collectTextNodes(lastApplied.root))
  /\ \A i \in 1..Len(lastApplied.attrNodes) :
       ~applies(lastApplied.texts[Len(lastApplied.textNodes) + i]) =>
         /\ Trim(getAttribute(lastApplied.attrNodes[i].element,
                               lastApplied.attrNodes[i].attribute))
              = lastApplied.attrNodes[i].text
         /\ lastApplied.attrNodes[i].element \notin translatedNodes
         /\ lastApplied.attrNodes[i] \in Range(collectAttributeNodes(lastApplied.root))

\* C6: the page is revealed only when the head pass and the above-fold pass
\* have both completed, and the below-fold pass starts only once revealed.
C6_RevealAfterBothPasses ==
  /\ revealed => pass[HeadPass].pc = "done" /\ pass[AbovePass].pc = "done"
  /\ pass[BelowPass].pc # "idle" => revealed

\* C6 witness: the page is revealed although the batches of both priority
\* passes brought no translation, and the below-fold request is in flight.
C6_Witness ==
  /\ revealed
  /\ pass[HeadPass].batch # <<>> /\ pass[AbovePass].batch # <<>>
  /\ \A t \in SourceTexts : ~cacheHas(t)
  /\ pass[BelowPass].pc = "waiting"

\* ------------------------------------------------------------------------
\* Claims about the edge worker (specification EdgeSpec)
\* ------------------------------------------------------------------------

\* C7: whatever collaborator call fails while a request is handled, the
\* failure is never surfaced to the requester as an error; the failure of a
\* configuration fetch, an origin fetch or an injection ends in forwarding
\* the original request unmodified.
C7_NoFailureSurfaces ==
  /\ response.via # "error"
  /\ (handled.fault \in {"configFetch", "inject"} /\ handled.hit = <<>>)
       => response.via \in {"forward", "origin"}

\* C8: whenever the translated pipeline serves a page-cache hit, the served
\* status, body and headers are what the augmentation pipeline would produce
\* for that request at that moment: from the origin's current page, with the
\* configuration and the language names resolved for this request.
C8_HitEqualsPipelineNow ==
  handled.hit # <<>> =>
    LET originalPath == slashJoin(slice1(filterBoolean(split(handled.pathname))))
        now == translatedPage(originResponse(originalPath, "page"), handled.lang,
                              originalPath, handled.config[1], handled.names)
    IN /\ response.status = now.status
       /\ response.contentType = now.contentType
       /\ response.html = now.html
       /\ response.contentLanguage = now.contentLanguage
       /\ response.cacheControl = now.cacheControl

\* C9: in the translated and in the default pipeline, when the origin's
\* response has a non-OK status the worker returns exactly that response,
\* with no fragment injected, and hands nothing to the page cache.
C9_NonOkPassedThrough ==
  (handled.fault = "none" /\ handled.origin # <<>> /\ ~ok(handled.origin[1])) =>
    /\ response = passThrough(handled.origin[1])
    /\ handled.stored = <<>>

\* C10: with an API key and a usable configuration, a request whose first
\* path segment is a target language goes to the translated pipeline with
\* that language and the origin is fetched at the request path with exactly
\* that segment removed ("/" when nothing remains); every other request,
\* one prefixed with the default language included, goes to the default
\* pipeline, which fetches the path unchanged.
C10_RoutingStripsFirstSegment ==
  (handled.route \in {"translated", "default"} /\ handled.originPath # <<>>) =>
    LET first == handled.pathname[1]
        rest == IF Len(handled.pathname) = 1 THEN <<"">> ELSE Tail(handled.pathname)
    IN IF first \in Range(handled.config[1].target_languages)
       THEN /\ handled.route = "translated"
            /\ handled.lang = first
            /\ handled.originPath = rest
       ELSE /\ handled.route = "default"
            /\ handled.originPath = handled.pathname

\* ------------------------------------------------------------------------
\* Claims about the injectors (specification InjectorSpec)
\* ------------------------------------------------------------------------

\* C11: every injector is idempotent: once an injector has been applied to a
\* document, applying it again (with any arguments) gives the same document;
\* the same holds for the whole sequence of injections of a translated page.
C11_InjectorsIdempotent ==
  /\ lastInjector = "injectAutoTranslation" =>
       \A lang \in Langs : injectAutoTranslation(doc, lang) = doc
  /\ lastInjector = "injectLanguageContext" =>
       \A lang \in Langs : injectLanguageContext(doc, lang) = doc
  /\ lastInjector = "addHreflangLinks" =>
       \A c \in UsableConfigs : addHreflangLinks(doc, doc.pathname, c) = doc
  /\ lastInjector = "injectLanguageSwitcher" =>
       \A c \in UsableConfigs : \A n \in NameMaps :
         injectLanguageSwitcher(doc, c, n) = doc
  /\ lastInjector = "injectAutoLanguageDetection" =>
       \A c \in UsableConfigs : injectAutoLanguageDetection(doc, c) = doc
  /\ lastInjector = "translatedInjections" =>
       \A lang \in Langs : \A c \in UsableConfigs : \A n \in NameMaps :
         translatedInjections(doc, lang, doc.pathname, c, n) = doc

\* The whole sequence injected its four fragments into a page that has no
\* <head> tag of its own.
C11_Witness ==
  /\ lastInjector = "translatedInjections"
  /\ ~doc.headOpen
  /\ doc.engine = <<"fr">>
  /\ doc.context = <<"fr">>
  /\ Len(doc.hreflang) = 1
  /\ Len(doc.switcher) = 1

\* ------------------------------------------------------------------------
\* Claims about the link rewrite (specification LinkSpec)
\* ------------------------------------------------------------------------

\* C12: an internal relative href (an absolute path, './x', a bare 'x', '/',
\* or an href that already carries the locale prefix, followed by a path, a
\* query, a fragment or nothing) begins with the locale prefix exactly once
\* after one or more applications of the rewrite.
C12_PrefixedExactlyOnce ==
  LET prefix == langPrefixOf(linkLang)
      carries(h) ==
        /\ startsWith(h, prefix)
        /\ (Len(h) = 2 \/ h[3] \in {"/", "?", "#"})
      internal ==
        /\ linkInput # <<>>
        /\ linkInput[1] \in {"/", ".", "about"}
        /\ ~startsWith(linkInput, <<"/", "/">>)
  IN (internal /\ linkRewrites >= 1) =>
       /\ carries(link)
       /\ ~(Len(link) >= 3 /\ link[3] = "/" /\ carries(SubSeq(link, 3, Len(link))))

\* C13: the rewrite leaves exactly unchanged the href of every external
\* link (any link to another host), fragment link, mailto: and tel: link,
\* and of every link that already carries the locale prefix.
C13_OthersUnchanged ==
  LET prefix == langPrefixOf(linkLang)
      external ==
        \/ startsWith(linkInput, <<"http://">>)
        \/ startsWith(linkInput, <<"https://">>)
        \/ startsWith(linkInput, <<"/", "/">>)
      special ==
        \/ startsWith(linkInput, <<"#">>)
        \/ startsWith(linkInput, <<"mailto:">>)
        \/ startsWith(linkInput, <<"tel:">>)
      prefixed ==
        /\ startsWith(linkInput, prefix)
        /\ (Len(linkInput) = 2 \/ linkInput[3] \in {"/", "?", "#"})
  IN (external \/ special \/ prefixed) => link = linkInput

\* ------------------------------------------------------------------------
\* Claims about the fold partition (specification FoldSpec)
\* ------------------------------------------------------------------------

\* C14: for every subtree and layout, the candidates of the above-fold pass
\* and those of the below-fold pass are disjoint, and together they are
\* exactly the full extraction of the subtree (text nodes and attribute
\* candidates).
C14_FoldPartition ==
  fold.root # NoVal =>
    /\ Range(fold.above[1]) \cap Range(fold.below[1]) = {}
    /\ Range(fold.above[2]) \cap Range(fold.below[2]) = {}
    /\ Range(fold.above[1]) \cup Range(fold.below[1]) = Range(fold.full[1])
    /\ Range(fold.above[2]) \cup Range(fold.below[2]) = Range(fold.full[2])
    /\ Len(fold.above[1]) + Len(fold.below[1]) = Len(fold.full[1])
    /\ Len(fold.above[2]) + Len(fold.below[2]) = Len(fold.full[2])

\* The body is partitioned with a paragraph inside the 200px buffer, an image
\* exactly on the line and both parts holding candidates.
C14_Witness ==
  /\ fold.root = "body"
  /\ rect["p1"] = 799
  /\ rect["img"] = 800
  /\ "tP1" \in Range(fold.above[1])
  /\ fold.below[2] # <<>>
  /\ fold.above # fold.full

\* ------------------------------------------------------------------------
\* Claims about the auto-detect script (specification DetectSpec)
\* ------------------------------------------------------------------------

\* C15: within one browser session the script navigates at most once: the
\* session flag is set before the navigation decision, an execution that
\* finds the flag returns without navigating, and a navigation happens only
\* when the browser's primary language subtag is a target language and is
\* not the default language.
C15_NavigatesAtMostOnce ==
  /\ navigations <= 1
  /\ lastRun.pc = "decide" => sessionFlag
  /\ pageLoads >= 1 => sessionFlag
  /\ lastRun.flagBefore => ~lastRun.navigated
  /\ lastRun.navigated =>
       /\ sessionFlag
       /\ primarySubtag(browserLanguage) \in Range(lastRun.config[1].target_languages)
       /\ primarySubtag(browserLanguage) # lastRun.config[1].default_language

\* The script navigated to /fr/about and ran again on a later page load,
\* which found the flag.
C15_Witness ==
  /\ navigations = 1
  /\ location = <<"fr", "about">>
  /\ lastRun.flagBefore
  /\ pageLoads >= 2

\* ------------------------------------------------------------------------
\* Claims about batch failures (specification Spec)
\* ------------------------------------------------------------------------

\* C16: a failed batch request raises nothing to the pass (its continuation
\* is queued as after a response), leaves the translation cache and the DOM
\* as they are, and the apply step that follows modifies or marks only
\* nodes whose text has a translation in the cache; of a valid response the
\* well-formed entries are merged and the strings without a well-formed
\* entry keep their cache entry.
C16_FailedBatchChangesNothing ==
  [][/\ \A p \in PassIds :
          BatchFailure(p) =>
            /\ translationCache' = translationCache
            /\ nodeValue' = nodeValue /\ attr' = attr
            /\ translatedNodes' = translatedNodes
            /\ pass'[p].pc = "resolved"
            /\ revealed' = revealed /\ phase' = phase
     /\ \A p \in PassIds :
          Resume(p) =>
            /\ translationCache' = translationCache
            /\ \A n \in TextNodes :
                 (nodeValue'[n] # nodeValue[n] \/ (n \in translatedNodes' /\ n \notin translatedNodes)) =>
                   \E i \in 1..Len(pass[p].textNodes) :
                     /\ pass[p].textNodes[i] = n
                     /\ cacheHas(pass[p].texts[i])
                     /\ nodeValue'[n] = cacheGet(pass[p].texts[i])
            /\ \A s \in PageAttrs :
                 attr'[s] # attr[s] =>
                   \E i \in 1..Len(pass[p].attrNodes) :
                     /\ pass[p].attrNodes[i].element = s[1]
                     /\ pass[p].attrNodes[i].attribute = s[2]
                     /\ cacheHas(pass[p].attrNodes[i].text)
                     /\ attr'[s] = cacheGet(pass[p].attrNodes[i].text)
            /\ \A e \in Elements :
                 (e \in translatedNodes' /\ e \notin translatedNodes) =>
                   \E i \in 1..Len(pass[p].attrNodes) :
                     /\ pass[p].attrNodes[i].element = e
                     /\ cacheHas(pass[p].attrNodes[i].text)
     /\ \A p \in PassIds :
          pass[p].pc = "waiting" =>
            \A reply \in Replies(pass[p].batch) :
              BatchResponse(p, reply) =>
                \A t \in SourceTexts :
                  /\ (t \in Range(pass[p].batch) /\ reply[t] = "translated")
                       => translationCache'[t] = Translated(t)
                  /\ (t \notin Range(pass[p].batch) \/ reply[t] = "omitted")
                       => translationCache'[t] = translationCache[t]
    ]_vars

\* Every batch of the initial passes failed or held no well-formed entry:
\* the passes completed, the page is revealed, the cache is empty and no
\* node was modified or marked.
C16_Witness ==
  /\ phase = "finished"
  /\ sendCount["Hello"] > 0
  /\ \A t \in SourceTexts : ~cacheHas(t)
  /\ translatedNodes = {}
  /\ \A n \in TextNodes : textWrites[n] = 0
  /\ revealed

\* ------------------------------------------------------------------------
\* More claims about the edge worker (specification EdgeSpec)
\* ------------------------------------------------------------------------

\* C17: without an API key every request is forwarded to the origin
\* unmodified: no configuration or language-name lookup is made, no cache is
\* read or written, and the response carries no injected fragment.
C17_NoKeyPassthrough ==
  [][(~apiKey /\ requests' = requests + 1) =>
       /\ response' = forward(handled'.pathname)
       /\ response'.html = OriginHtml(handled'.pathname, originVersion)
       /\ handled'.route = "passthrough"
       /\ handled'.config = <<>> /\ handled'.names = {}
       /\ handled'.hit = <<>> /\ handled'.stored = <<>>
       /\ configCache' = configCache
       /\ namesCache' = namesCache
       /\ pageCache' = pageCache
    ]_vars

\* A request for /fr is forwarded although the page cache holds a page for
\* it and the configuration cache holds the configuration.
C17_Witness ==
  /\ ~apiKey
  /\ requests = 2
  /\ handled.pathname = <<"fr">>
  /\ response.via = "forward"
  /\ cacheMatch(cacheKey(<<"fr">>, "fr")) # {}
  /\ configCache # <<>>

\* ------------------------------------------------------------------------
\* Claims about the phases of the client engine (specifications Spec, LiveSpec)
\* ------------------------------------------------------------------------

\* C18: the phases run strictly in order: the below-fold pass starts only
\* after the head pass and the above-fold pass are done, and a
\* mutation-triggered pass is in progress only after the below-fold pass has
\* finished, never while an initial pass is in flight.
C18_PhasesInOrder ==
  /\ pass[BelowPass].pc # "idle" => AllSettled({HeadPass, AbovePass})
  /\ \A i \in 1..MaxObserverCalls :
       pass[NewNodesPass(i)].pc \in {"waiting", "resolved"} =>
         /\ phase = "finished"
         /\ \A p \in {HeadPass, AbovePass, BelowPass} : pass[p].pc = "done"

\* C19: when every batch request of the head pass and of the above-fold
\* pass completes, with a response or a failure, the page is eventually
\* revealed, whatever becomes of the below-fold pass and of the
\* mutation-triggered passes.
C19_EventuallyRevealed == <>revealed

\* The page is revealed although every batch so far failed or held no
\* well-formed entry and the below-fold request is still in flight.
C19_Witness ==
  /\ revealed
  /\ \A t \in SourceTexts : ~cacheHas(t)
  /\ sendCount["Hello"] > 0
  /\ pass[BelowPass].pc = "waiting"

\* ------------------------------------------------------------------------
\* Claims about inserted subtrees (specification SubtreeSpec)
\* ------------------------------------------------------------------------

\* C20: once the mutation-triggered pass of an inserted subtree has
\* completed, every internal relative link of the subtree, its root
\* included, carries the locale prefix, whether or not the subtree held
\* translatable text and whether or not its batch request succeeded; and the
\* apply step of a mutation-triggered pass leaves the href of every link
\* outside its subtree unchanged.
C20_SubtreeLinksPrefixed ==
  /\ [](\A i \in 1..MaxObserverCalls :
          pass[NewNodesPass(i)].pc = "done" =>
            \A r \in Range(pass[NewNodesPass(i)].nodes) :
              \A l \in Links :
                (l = r \/ UnderElement(r, l)) =>
                  startsWith(linkHref[l], langPrefixOf(PageLang) \o <<"/">>))
  /\ [][\A i \in 1..MaxObserverCalls :
          Resume(NewNodesPass(i)) =>
            \A l \in Links :
              ~(l = pass[NewNodesPass(i)].root \/ UnderElement(pass[NewNodesPass(i)].root, l))
                => linkHref'[l] = linkHref[l]]_vars

\* ------------------------------------------------------------------------
\* Claims about extraction (specification Spec)
\* ------------------------------------------------------------------------

\* C21: whenever a pass extracts over its root, it gets exactly one
\* candidate for every non-empty alt, title, placeholder or aria-label
\* attribute of every unmarked element of the subtree, the root element
\* included, and its text candidates are the eligible text nodes under the
\* root (for the above-fold and below-fold passes: those on their side of
\* the fold).
C21_ExtractionCoversSubtree ==
  [][LET side(p, e) ==
           CASE p = AbovePass -> AboveFold(e)
             [] p = BelowPass -> BelowFold(e)
             [] OTHER -> TRUE
         attributesDue(p, root) ==
           {sl \in Elements \X Range(StdAttrs) :
              /\ (sl[1] = root \/ UnderElement(root, sl[1]))
              /\ getAttribute(sl[1], sl[2]) # ""
              /\ sl[1] \notin translatedNodes
              /\ side(p, sl[1])}
         textNodesDue(p, root) ==
           {n \in TextNodes :
              /\ UnderText(root, n)
              /\ Trim(nodeValue[n]) # ""
              /\ tagName(parentElement(n)) \notin SkipTags
              /\ ~closestOptOut(parentElement(n))
              /\ n \notin translatedNodes
              /\ (root = "head" => tagName(parentElement(n)) = "TITLE")
              /\ side(p, parentElement(n))}
     IN \A p \in PassIds : \A root \in Elements :
          (/\ pass'[p].root = root
           /\ pass'[p].pc # "idle"
           /\ (pass[p].root # root \/ pass[p].idx # pass'[p].idx)) =>
            /\ \A sl \in (attributesDue(p, root))' :
                 Cardinality({i \in 1..Len(pass'[p].attrNodes) :
                                /\ pass'[p].attrNodes[i].element = sl[1]
                                /\ pass'[p].attrNodes[i].attribute = sl[2]}) = 1
            /\ (textNodesDue(p, root))' = Range(pass'[p].textNodes)
            /\ Cardinality((textNodesDue(p, root))') = Len(pass'[p].textNodes)]_vars

\* ------------------------------------------------------------------------
\* Claims about the shared state of a page view (specification Spec)
\* ------------------------------------------------------------------------

\* C22: on every step of a page view a cache entry that is set stays set
\* with the same value and a marked node stays marked.
C22_CacheAndMarksAppendOnly ==
  [][/\ \A t \in SourceTexts :
          cacheHas(t) => translationCache'[t] = translationCache[t]
     /\ translatedNodes \subseteq translatedNodes']_vars

\* C23: the batch a pass builds holds no string that the cache maps, at
\* that moment, to a value different from the string; a pass whose candidate
\* strings are all so cached sends no request, and its apply step writes the
\* cached translation to every one of its candidates and marks it.
C23_CachedNeverSent ==
  [][/\ \A p \in PassIds :
          (/\ pass'[p].root # NoVal
           /\ pass'[p].pc # "idle"
           /\ (pass[p].root # pass'[p].root \/ pass[p].idx # pass'[p].idx)) =>
            /\ \A t \in Range(pass'[p].batch) : ~(cacheHas(t) /\ cacheGet(t) # t)
            /\ (/\ pass'[p].texts # <<>>
                /\ \A t \in Range(pass'[p].texts) : cacheHas(t) /\ cacheGet(t) # t) =>
                 /\ pass'[p].pc = "resolved"
                 /\ Sent(pass'[p]) = <<>>
     /\ \A p \in PassIds :
          (Resume(p) /\ pass[p].batch = <<>>) =>
            /\ \A i \in 1..Len(pass[p].textNodes) :
                 /\ nodeValue'[pass[p].textNodes[i]] = cacheGet(pass[p].texts[i])
                 /\ pass[p].textNodes[i] \in translatedNodes'
            /\ \A i \in 1..Len(pass[p].attrNodes) :
                 /\ attr'[<<pass[p].attrNodes[i].element, pass[p].attrNodes[i].attribute>>]
                      = cacheGet(pass[p].texts[Len(pass[p].textNodes) + i])
                 /\ pass[p].attrNodes[i].element \in translatedNodes']_vars

\* The pass of the inserted d1 found "Hello" cached as "Bonjour": it built an
\* empty batch and sent no request, and its continuation is queued.
C23_Witness ==
  \E i \in 1..MaxObserverCalls :
    /\ pass[NewNodesPass(i)].root = "d1"
    /\ pass[NewNodesPass(i)].texts = <<"Hello">>
    /\ pass[NewNodesPass(i)].batch = <<>>
    /\ pass[NewNodesPass(i)].pc = "resolved"
    /\ cacheGet("Hello") = "Bonjour"

\* ------------------------------------------------------------------------
\* Claims about the opt-out marker (specification Spec)
\* ------------------------------------------------------------------------

\* C24: no text node and no alt, title, placeholder or aria-label attribute
\* of an element that carries translate="no", or lies under an element
\* carrying it, is a candidate of any pass (so it is in no request), and
\* none is overwritten by a translation result.
C24_OptOutUntouched ==
  /\ \A p \in PassIds :
       /\ \A i \in 1..Len(pass[p].textNodes) :
            ~closestOptOut(parentElement(pass[p].textNodes[i]))
       /\ \A i \in 1..Len(pass[p].attrNodes) :
            ~closestOptOut(pass[p].attrNodes[i].element)
  /\ \A n \in TextNodes :
       closestOptOut(parentElement(n)) => textWrites[n] = 0
  /\ \A sl \in PageAttrs :
       closestOptOut(sl[1]) => attrWrites[sl] = 0

====
